---- MODULE Spec2Model ----
(***************************************************************************)
(* Model of the driver's polling loop (crates/driver/src/main.rs,          *)
(* main_loop): one tick reads the HID endpoint, processes the frame held   *)
(* in buf (control frame or pad frame), receives from the OSC listener     *)
(* twice, and flushes the lights when something changed.                   *)
(*                                                                         *)
(* The light model (maschine_library::lights) and the enumerations         *)
(* (maschine_library::controls) are not part of the driver crate; they     *)
(* are modelled from the written description: a map button -> brightness,  *)
(* 16 pads of (colour, brightness) and a slider bar of 25 brightnesses.    *)
(***************************************************************************)
EXTENDS Integers, Sequences, FiniteSets, TLC

\* ------------------------------------------------------------------ bounds
MaxTicks == 3          \* loop iterations explored in the "main" scenario
MaxMixTicks == 2       \* loop iterations explored in the "mix"/"osc" scenarios
MaxProbeTicks == 1     \* loop iterations explored in the "slider"/"pad" scenarios
MaxArrivals == 3       \* datagrams arriving in one behaviour of the "osc" scenario
MaxMixArrivals == 1    \* datagrams arriving in one behaviour of the "mix" scenario
MaxLatchTicks == 4     \* loop iterations explored in the "latch" scenario

\* ------------------------------------------------------- program constants
SliderLeds == 25
SliderMax == 200
NumPads == 16
ByteMax == 255
PadValueMax == 4095
BufLen == 64
NumPadColors == 18
PadColorOff == 0
PadColorBlue == 11

\* -------------------------------------------------------------- the enums
\* Buttons in enum order (the order the bit loop visits them).  Three of the
\* 41 identifiers are modelled: two with a light, one without.
ButtonOrder == <<"Play", "Stop", "EncoderPress">>
Buttons == {ButtonOrder[i] : i \in 1..Len(ButtonOrder)}

button_has_light(b) == b # "EncoderPress"

Brightness == {"Off", "Dim", "Normal", "Bright"}

ButtonMode == {"Trigger", "Toggle"}

\* PadEventType by its nibble (high four bits of the tuple's second byte).
PadEventType(evt) ==
    CASE evt = 0 -> "PressOn"
      [] evt = 16 -> "NoteOn"
      [] evt = 32 -> "PressOff"
      [] evt = 48 -> "NoteOff"
      [] evt = 64 -> "Aftertouch"
      [] OTHER -> "None"

\* Settings::default().notemaps
notemaps == <<49, 27, 31, 57, 48, 47, 43, 59, 36, 38, 46, 51, 36, 38, 42, 44>>

\* ---------------------------------------------------------------- strings
\* to_lowercase / eq_ignore_ascii_case on the names that occur.
ToLower(s) ==
    CASE s = "Play" -> "play"
      [] s = "PLAY" -> "play"
      [] s = "Stop" -> "stop"
      [] s = "EncoderPress" -> "encoderpress"
      [] OTHER -> s

\* button_from_name: the first identifier whose Debug name equals the given
\* name ignoring case; "None" when there is none.
button_from_name(name) ==
    IF \E b \in Buttons : ToLower(b) = ToLower(name)
    THEN CHOOSE b \in Buttons : ToLower(b) = ToLower(name)
    ELSE "None"

\* str::parse::<usize> on the path segments that occur; -1 stands for Err.
ParseUsize(s) ==
    CASE s = "0" -> 0
      [] s = "3" -> 3
      [] s = "15" -> 15
      [] s = "16" -> 16
      [] OTHER -> -1

\* ------------------------------------------------------------------ state
VARIABLES
    env,              \* which inputs the environment offers in this behaviour
    probe,            \* the raw value under test in the "slider"/"pad" scenarios
    settings,         \* settings.button_configs: button -> [mode, group_id]
    exclusive_groups, \* group id -> member names, in the order they were pushed
    buf,              \* the HID report buffer (kept across ticks)
    toggle_states,    \* button -> stored latch boolean
    lights,           \* [button, pad, slider]: the light model
    changed_lights,   \* the tick's dirty flag
    osc_listener,     \* datagrams queued on the listener socket
    send_ok,          \* [osc, midi]: whether this tick's outbound sends succeed
    tick_hist,        \* history of the current tick: the button lights at its
                      \* start and after the HID section, whether a light
                      \* setter ran (in the HID section, at all), and the
                      \* snapshots lights.write sent
    cfg,              \* the settings file as loaded: notemaps and port names
    validated,        \* "pending", or what Settings::validate returned
    osc_out,          \* status messages sent, oldest first
    midi_out,         \* note and controller messages sent, oldest first
    hid_in,           \* the frames the HID reads returned, oldest first
    last_recv,        \* what the two receives of the current tick returned
    held,             \* history: Latching buttons pressed ever since an accepted press
    reaccepted,       \* history: buttons of held whose press the last pass accepted again
    pc,               \* position in the loop body
    ticks,            \* completed HID reads
    arrivals          \* datagrams that have arrived so far

vars == <<env, probe, settings, exclusive_groups, buf, toggle_states, lights,
          changed_lights, osc_listener, send_ok, tick_hist, cfg, validated, osc_out, midi_out, hid_in, last_recv,
          held, reaccepted, pc, ticks, arrivals>>

GroupIds == {1}

\* One button's configuration; group_id 0 stands for None and cc 0 for None
\* (cc is the controller number main_loop reads as config.cc).  A button that
\* is absent from button_configs behaves as [mode Trigger, group None, cc None].
ButtonConfig == {[mode |-> "Trigger", group_id |-> 0, cc |-> 0],
                 [mode |-> "Toggle", group_id |-> 0, cc |-> 0],
                 [mode |-> "Toggle", group_id |-> 1, cc |-> 0]}

\* ----------------------------------------------------------------- frames
ZeroBuf == [sel |-> 0, pressed |-> {}, slider |-> 0, tuples |-> <<>>]

ControlFrame(P, L) == [sel |-> 1, pressed |-> P, slider |-> L, tuples |-> <<>>]

PadFrame(ts) == [sel |-> 2, pressed |-> {}, slider |-> 0, tuples |-> ts]

PadTuple(idx, evt, val) == [idx |-> idx, evt |-> evt, val |-> val]

ZeroTuple == PadTuple(0, 0, 0)

\* ------------------------------------------------------------- the lights
LightsNew ==
    [button |-> [b \in Buttons |-> "Off"],
     pad |-> [p \in 0..(NumPads - 1) |-> <<PadColorOff, "Off">>],
     slider |-> [i \in 0..(SliderLeds - 1) |-> "Off"]]

set_button(l, b, br) == [l EXCEPT !.button[b] = br]

set_pad(l, p, color, br) == [l EXCEPT !.pad[p] = <<color, br>>]

\* ------------------------------------------------------------- the slider
\* cnt = (slider_val - 1 + 5) * 25 / 200 - 1 on i32; Rust's "/" truncates
\* towards zero, and the dividend is never negative for slider_val >= 0.
\* Mutant: the fill index without the final "- 1".
SliderCntNoOffset(slider_val) == ((slider_val - 1 + 5) * SliderLeds) \div SliderMax

SliderCnt(slider_val) == (((slider_val - 1 + 5) * SliderLeds) \div SliderMax) - 1

SliderLed(cnt, i) ==
    IF cnt - i = 0 THEN "Normal"
    ELSE IF cnt - i >= 1 /\ cnt - i <= 25 THEN "Dim"
    ELSE "Off"

SliderBar(slider_val) ==
    [i \in 0..(SliderLeds - 1) |-> SliderLed(SliderCnt(slider_val), i)]

set_slider_bar(l, slider_val) == [l EXCEPT !.slider = SliderBar(slider_val)]

\* ----------------------------------------------- the loop body's local state
\* What one pass over a frame threads through its iterations: the light
\* model, the latch map, the two output logs, the dirty flag, and whether an
\* unwrap or an index panicked.  acc records the buttons whose press the
\* Latching branch accepted in this pass (history only).
LoopState ==
    [lights |-> lights, ts |-> toggle_states, osc |-> osc_out,
     midi |-> midi_out, ch |-> FALSE, panic |-> FALSE, acc |-> {},
     ok |-> send_ok, set |-> FALSE]

OscStatus(name, value) == <<name, value>>

\* osc_socket.send_to: the result is dropped or logged; the message reaches
\* the log of sent messages only when the send succeeds.
SendOsc(st, m) ==
    IF st.ok.osc THEN [st EXCEPT !.osc = Append(@, m)] ELSE st

\* port.send(..).unwrap(): a failed send panics.
SendMidi(st, m) ==
    IF st.ok.midi THEN [st EXCEPT !.midi = Append(@, m)]
    ELSE [st EXCEPT !.panic = TRUE]

ControllerMessage(cc_num, cc_val) ==
    [type |-> "Controller", key |-> cc_num, vel |-> cc_val]

\* --------------------------------------------------- buttons (control frame)
\* Mutant: the other member's light and status are reset, its stored boolean
\* is not.
ResetMemberKeepsLatch(st, other) ==
    [st EXCEPT !.lights = set_button(st.lights, other, "Off"),
               !.ch = TRUE, !.set = TRUE,
               !.osc = Append(st.osc, <<ToLower(other), 0>>)]

\* Mutant: the other member is reset without the status 0.
ResetMemberSilent(st, other) ==
    [st EXCEPT !.ts[other] = FALSE,
               !.lights = set_button(st.lights, other, "Off"),
               !.ch = TRUE, !.set = TRUE]

\* One other member of the exclusivity group is forced off: its stored
\* boolean, its light, and a status 0.
\* Mutant: the reset forgets the light of the other member.
ResetMemberLightStays(st, other) ==
    SendOsc([st EXCEPT !.ts[other] = FALSE, !.ch = TRUE, !.set = TRUE],
            OscStatus(ToLower(other), 0))

ResetMember(st, other) ==
    SendOsc([st EXCEPT !.ts[other] = FALSE,
                       !.lights = set_button(st.lights, other, "Off"),
                       !.ch = TRUE, !.set = TRUE],
            OscStatus(ToLower(other), 0))

RECURSIVE ResetOthers(_, _, _, _)
ResetOthers(member_names, k, b, st) ==
    IF k > Len(member_names) THEN st
    ELSE ResetOthers(member_names, k + 1, b,
                     IF member_names[k] # b
                     THEN ResetMember(st, member_names[k])
                     ELSE st)

\* The Latching debounce: a press counts only while the light is not Bright.
ToggleAccepted(st, b, is_pressed) ==
    is_pressed /\ st.lights.button[b] # "Bright"

\* The Momentary edge detector: the light (# Off) stands for "was pressed".
TriggerChanged(st, b, is_pressed) ==
    is_pressed # (st.lights.button[b] # "Off")

\* Mutant: a released Latching control goes dark whatever its stored state.
ReleaseLightOff(latched) == "Off"

\* The light of a released Latching control: Dim while latched, else Off.
ReleaseLight(latched) == IF latched THEN "Dim" ELSE "Off"

\* let cc_val = if osc_value == 1 { 127 } else { 0 };
CcValue(osc_value) == IF osc_value = 1 THEN 127 ELSE 0

\* The body of the bit loop for one mapped button.
ButtonStep(b, is_pressed, st) ==
    LET config == settings[b]
        mode == config.mode
        current_light_state == st.lights.button[b] # "Off"
        accepted == mode = "Toggle" /\ ToggleAccepted(st, b, is_pressed)
        new_toggle_state == ~st.ts[b]
        st1 == IF accepted /\ new_toggle_state /\ config.group_id \in GroupIds
               THEN ResetOthers(exclusive_groups[config.group_id], 1, b, st)
               ELSE st
        st2 == IF accepted
               THEN [st1 EXCEPT !.ts[b] = new_toggle_state, !.acc = @ \cup {b}]
               ELSE st1
        should_send_osc ==
            IF mode = "Trigger" THEN TriggerChanged(st, b, is_pressed) ELSE accepted
        osc_value ==
            IF mode = "Trigger" THEN (IF is_pressed THEN 1 ELSE 0)
            ELSE (IF new_toggle_state THEN 1 ELSE 0)
        target_light_brightness ==
            IF mode = "Trigger"
            THEN IF TriggerChanged(st, b, is_pressed)
                 THEN (IF is_pressed THEN "Normal" ELSE "Off")
                 ELSE "None"
            ELSE IF ~is_pressed /\ current_light_state
                 THEN ReleaseLight(st2.ts[b])
                 ELSE IF accepted THEN "Bright" ELSE "None"
        st3 == IF should_send_osc
               THEN SendOsc(st2, OscStatus(ToLower(b), osc_value))
               ELSE st2
        st4 == IF config.cc # 0 /\ should_send_osc
               THEN SendMidi(st3, ControllerMessage(config.cc, CcValue(osc_value)))
               ELSE st3
    IN  IF st4.panic THEN st4
        ELSE IF target_light_brightness # "None" /\ button_has_light(b)
        THEN [st4 EXCEPT !.lights = set_button(st4.lights, b, target_light_brightness),
                         !.ch = TRUE, !.set = TRUE]
        ELSE st4

RECURSIVE ButtonLoop(_, _, _)
ButtonLoop(k, pressed, st) ==
    IF k > Len(ButtonOrder) \/ st.panic THEN st
    ELSE ButtonLoop(k + 1, pressed,
                    ButtonStep(ButtonOrder[k], ButtonOrder[k] \in pressed, st))

\* ---------------------------------------------------- slider (control frame)
\* The level the hardware path hands to the fill computation: buf[10] as is.
HardwareSliderLevel(slider_val) == slider_val

SliderStep(slider_val, st) ==
    IF slider_val # 0
    THEN LET st1 == SendOsc(st, OscStatus("slider", slider_val))
         IN  [st1 EXCEPT !.lights = set_slider_bar(st1.lights, HardwareSliderLevel(slider_val)),
                         !.ch = TRUE, !.set = TRUE]
    ELSE st

\* ------------------------------------------------------------ pads (pad frame)
\* velocity = (val >> 5) as u8, raised to 1 when val > 0 and the shift gave 0.
\* Mutant: the shift alone, without the floor of 1.
VelocityNoFloor(val) == (val \div 32) % (ByteMax + 1)

Velocity(val) ==
    LET velocity == (val \div 32) % (ByteMax + 1)
    IN  IF val > 0 /\ velocity = 0 THEN 1 ELSE velocity

PadBrightness(pad_evt, val, prev_b) ==
    CASE pad_evt \in {"NoteOn", "PressOn"} -> "Normal"
      [] pad_evt \in {"NoteOff", "PressOff"} -> "Off"
      [] pad_evt = "Aftertouch" -> (IF val > 0 THEN "Normal" ELSE "Off")
      [] OTHER -> prev_b

PadNote(idx) == notemaps[idx + 1]

PadEvent(pad_evt, idx, val) ==
    CASE pad_evt \in {"NoteOn", "PressOn"} ->
            <<[type |-> "NoteOn", key |-> PadNote(idx), vel |-> Velocity(val)]>>
      [] pad_evt \in {"NoteOff", "PressOff"} ->
            <<[type |-> "NoteOff", key |-> PadNote(idx), vel |-> Velocity(val)]>>
      [] OTHER -> <<>>

\* The body of the tuple loop for one tuple that is not the end marker.
\* from_u8(evt).unwrap() panics on an unknown nibble; get_pad / notemaps[idx]
\* panic on an index outside 0..15.
PadStep(t, st) ==
    LET pad_evt == PadEventType(t.evt)
    IN  IF pad_evt = "None" \/ t.idx >= NumPads
        THEN [st EXCEPT !.panic = TRUE]
        ELSE LET prev_b == st.lights.pad[t.idx][2]
                 b == PadBrightness(pad_evt, t.val, prev_b)
                 st1 == IF prev_b # b
                        THEN [st EXCEPT !.lights = set_pad(st.lights, t.idx, PadColorBlue, b),
                                        !.ch = TRUE, !.set = TRUE]
                        ELSE st
                 event == PadEvent(pad_evt, t.idx, t.val)
             IN  IF event = <<>> THEN st1 ELSE SendMidi(st1, event[1])

\* Tuples sit at offsets 1, 4, ..., 61 of the 64-byte buffer.
NumTuples == (BufLen - 1) \div 3

TupleAt(tuples, k) == IF k <= Len(tuples) THEN tuples[k] ELSE ZeroTuple

RECURSIVE PadLoop(_, _, _)
PadLoop(k, tuples, st) ==
    IF k > NumTuples \/ st.panic THEN st
    ELSE IF k > 1 /\ TupleAt(tuples, k) = ZeroTuple THEN st
    ELSE PadLoop(k + 1, tuples, PadStep(TupleAt(tuples, k), st))

\* ------------------------------------------------------ the frame in buf
ProcessBuf(st) ==
    IF buf.sel = 1
    THEN LET st1 == ButtonLoop(1, buf.pressed, st)
         IN  IF st1.panic THEN st1 ELSE SliderStep(buf.slider, st1)
    ELSE IF buf.sel = 2
    THEN PadLoop(1, buf.tuples, st)
    ELSE st

\* ------------------------------------------------------ inbound datagrams
IntArg(n) == [type |-> "Int", v |-> n]

StrArg == [type |-> "String", v |-> 0]

\* A datagram: whether it decodes to an OSC message, the segments of its
\* address (the text between the slashes, after the leading one) and its
\* arguments.
Datagram(addr, args) == [ok |-> TRUE, addr |-> addr, args |-> args]

Malformed == [ok |-> FALSE, addr |-> <<>>, args |-> <<>>]

NoDatagram == [ok |-> FALSE, addr |-> <<"WouldBlock">>, args |-> <<>>]

IsInt(args, k) == Len(args) >= k /\ args[k].type = "Int"

\* msg.addr.split('/').filter(|s| !s.is_empty())
AddressParts1(addr) == SelectSeq(addr, LAMBDA seg : seg # "")

\* msg.addr.trim_start_matches('/').split('/'): the leading empty segments go,
\* the others stay; an address of slashes only leaves one empty segment.
RECURSIVE AddressParts2(_)
AddressParts2(addr) ==
    IF addr = <<>> THEN <<"">>
    ELSE IF Head(addr) = "" THEN AddressParts2(Tail(addr))
    ELSE addr

\* (*val as u8).clamp(0, 200): the i32 is truncated to its low byte first.
InboundSliderLevel(val) ==
    LET byte == val % (ByteMax + 1)
    IN  IF byte > SliderMax THEN SliderMax ELSE byte

PadColorFromI32(color_val) ==
    IF color_val >= 0 /\ color_val < NumPadColors THEN color_val ELSE PadColorOff

BrightnessFromCode(brightness_val) ==
    CASE brightness_val = 1 -> "Dim"
      [] brightness_val = 2 -> "Normal"
      [] brightness_val = 3 -> "Bright"
      [] OTHER -> "Off"

DirectBrightness(val) == IF val = 1 THEN "Bright" ELSE "Off"

\* Mutant: an inbound write gives way to a light change the hardware made
\* earlier in the tick.
DirectButtonLightUnlessDirty(st, name, args) ==
    LET button == button_from_name(name)
    IN  IF button # "None" /\ IsInt(args, 1) /\ button_has_light(button) /\ ~st.ch
        THEN [st EXCEPT !.lights = set_button(st.lights, button, DirectBrightness(args[1].v)),
                        !.ch = TRUE, !.set = TRUE]
        ELSE st

\* The direct light write both handlers share.
DirectButtonLight(st, name, args) ==
    LET button == button_from_name(name)
    IN  IF button # "None" /\ IsInt(args, 1) /\ button_has_light(button)
        THEN [st EXCEPT !.lights = set_button(st.lights, button, DirectBrightness(args[1].v)),
                        !.ch = TRUE, !.set = TRUE]
        ELSE st

\* Whether the first handler's pad arm writes a light for this message.
PadArmApplies(parts, args) ==
    /\ ParseUsize(parts[2]) >= 0
    /\ ParseUsize(parts[2]) < NumPads
    /\ IsInt(args, 1)
    /\ IsInt(args, 2)

\* The first receive's dispatch: slider, pad/N, single-segment button.
OscDispatch1(st, d) ==
    LET parts == AddressParts1(d.addr)
    IN  IF ~d.ok THEN st
        ELSE IF parts = <<"slider">>
        THEN IF IsInt(d.args, 1)
             THEN [st EXCEPT !.lights = set_slider_bar(st.lights, InboundSliderLevel(d.args[1].v)),
                             !.ch = TRUE, !.set = TRUE]
             ELSE st
        ELSE IF Len(parts) = 2 /\ parts[1] = "pad"
        THEN IF PadArmApplies(parts, d.args)
             THEN [st EXCEPT !.lights = set_pad(st.lights, ParseUsize(parts[2]),
                                                PadColorFromI32(d.args[1].v),
                                                BrightnessFromCode(d.args[2].v)),
                             !.ch = TRUE, !.set = TRUE]
             ELSE st
        ELSE IF Len(parts) = 1
        THEN DirectButtonLight(st, parts[1], d.args)
        ELSE st

\* The second receive's dispatch: screen text (no light or latch effect) and
\* the button named by the second segment.
OscDispatch2(st, d) ==
    LET parts == AddressParts2(d.addr)
    IN  IF ~d.ok THEN st
        ELSE IF Len(parts) >= 2
        THEN DirectButtonLight(st, parts[2], d.args)
        ELSE st

\* recv_from on the non-blocking listener: the oldest queued datagram, or
\* WouldBlock.
RecvFrom(queue) == IF queue = <<>> THEN NoDatagram ELSE Head(queue)

AfterRecv(queue) == IF queue = <<>> THEN queue ELSE Tail(queue)

\* -------------------------------------------------------- the environment
\* The inputs offered, by scenario:
\*   "main"    control frames over the modelled buttons, every button
\*             configuration, no inbound traffic;
\*   "mix"     control frames over Play and Stop in every configuration of the
\*             two, with button-light datagrams;
\*   "osc"     the richer datagram alphabet against one pad frame;
\*   "slider"  control frames carrying the slider byte under test (0..255);
\*   "pad"     pad frames carrying the 12-bit value under test (0..4095).
Envs == {"main", "mix", "osc", "slider", "pad"}

\* Further scenarios, explored by SpecExt:
\*   "latch"    control frames over Play and Stop, Latching (or Stop
\*              Momentary) with and without a controller number, no inbound
\*              traffic, four ticks;
\*   "fail"     outbound sends that may fail, tick by tick;
\*   "badpad"   pad frames holding a tuple with an unknown event nibble or an
\*              index byte beyond the 16 pads;
\*   "inslider" one inbound slider message whose argument is the probe.
ExtEnvs == {"latch", "fail", "badpad", "inslider"}

PlayCc == 20
StopCc == 21

Frames(e, v) ==
    CASE e = "main" -> {ControlFrame(P, 0) : P \in SUBSET Buttons}
      [] e = "mix" -> {ControlFrame(P, 0) : P \in SUBSET {"Play", "Stop"}}
      [] e = "osc" -> {PadFrame(<<PadTuple(3, 16, 100)>>)}
      [] e = "slider" -> {ControlFrame({}, v)}
      [] e = "pad" -> {PadFrame(<<PadTuple(0, 16, v), PadTuple(15, 0, v)>>),
                       PadFrame(<<PadTuple(15, 48, v)>>)}
      [] e = "latch" -> {ControlFrame(P, 0) : P \in SUBSET {"Play", "Stop"}}
      [] e = "fail" -> {ControlFrame({"Play"}, 0), ControlFrame({}, 0),
                        ControlFrame({}, 100),
                        PadFrame(<<PadTuple(3, 16, 100)>>)}
      [] e = "badpad" -> {PadFrame(<<PadTuple(3, 80, 100), PadTuple(4, 16, 100)>>),
                          PadFrame(<<PadTuple(4, 16, 100), PadTuple(3, 80, 100)>>),
                          PadFrame(<<PadTuple(4, 16, 100)>>),
                          PadFrame(<<PadTuple(NumPads, 16, 100)>>),
                          PadFrame(<<PadTuple(4, 16, 100), PadTuple(ByteMax, 48, 0)>>)}
      [] e = "inslider" -> {ControlFrame({}, 100)}

Datagrams(e) ==
    CASE e = "mix" ->  {Datagram(<<"play">>, <<IntArg(1)>>),
                        Datagram(<<"PLAY">>, <<IntArg(0)>>),
                        Datagram(<<"maschine", "stop">>, <<IntArg(1)>>)}
      [] e = "osc" -> {Datagram(<<"pad", "3">>, <<IntArg(2), IntArg(3)>>),
                       Datagram(<<"pad", "16">>, <<IntArg(2), IntArg(3)>>),
                       Datagram(<<"pad", "0">>, <<IntArg(17), IntArg(1)>>),
                       Datagram(<<"play">>, <<IntArg(1)>>),
                       Malformed}
      [] e = "fail" -> {Datagram(<<"play">>, <<IntArg(1)>>)}
      [] e = "badpad" -> {Datagram(<<"pad", "3">>, <<IntArg(2), IntArg(3)>>)}
      [] OTHER -> {}

\* The datagrams whose argument is the probe.
ProbeDatagrams(e, v) ==
    IF e = "inslider" THEN {Datagram(<<"slider">>, <<IntArg(v)>>)} ELSE {}

ProbeValues(e) ==
    CASE e = "slider" -> 0..ByteMax
      [] e = "pad" -> 0..PadValueMax
      [] e = "inslider" -> (0 - (ByteMax + 1))..(2 * ByteMax + 1)
      [] OTHER -> {0}

TickBound(e) ==
    CASE e = "main" -> MaxTicks
      [] e \in {"mix", "osc", "fail", "badpad"} -> MaxMixTicks
      [] e = "latch" -> MaxLatchTicks
      [] OTHER -> MaxProbeTicks

ArrivalBound(e) ==
    IF e \in {"mix", "fail", "inslider"} THEN MaxMixArrivals ELSE MaxArrivals

AllSent == [osc |-> TRUE, midi |-> TRUE]

\* The outcomes the sends of one tick can have.
SendOutcomes(e) ==
    IF e = "fail" THEN [osc : BOOLEAN, midi : BOOLEAN] ELSE {AllSent}

DefaultSettings == [b \in Buttons |-> [mode |-> "Trigger", group_id |-> 0, cc |-> 0]]

SettingsOf(e) ==
    CASE e = "main" -> [Buttons -> ButtonConfig]
      [] e = "mix" -> {s \in [Buttons -> ButtonConfig] :
                         s["EncoderPress"] = DefaultSettings["EncoderPress"]}
      [] e = "latch" ->
            {[b \in Buttons |->
                 CASE b = "Play" -> [mode |-> "Toggle", group_id |-> g1, cc |-> c1]
                   [] b = "Stop" -> [mode |-> m2,
                                     group_id |-> IF m2 = "Toggle" THEN g2 ELSE 0,
                                     cc |-> c2]
                   [] OTHER -> DefaultSettings[b]] :
               g1 \in {0} \cup GroupIds, c1 \in {0, PlayCc}, m2 \in ButtonMode,
               g2 \in {0} \cup GroupIds, c2 \in {0, StopCc}}
      [] e = "fail" ->
            {[b \in Buttons |->
                 CASE b = "Play" -> [mode |-> "Toggle", group_id |-> 1, cc |-> PlayCc]
                   [] b = "Stop" -> [mode |-> "Toggle", group_id |-> 1, cc |-> 0]
                   [] OTHER -> DefaultSettings[b]]}
      [] OTHER -> {DefaultSettings}

\* The Toggle buttons that name group g.
GroupMembers(s, g) == {b \in Buttons : s[b].mode = "Toggle" /\ s[b].group_id = g}

\* Every order in which the members can have been pushed (button_configs is
\* a HashMap: its iteration order is not fixed).
Orderings(S) ==
    {q \in [1..Cardinality(S) -> S] : \A i, j \in 1..Cardinality(S) : i # j => q[i] # q[j]}

\* ------------------------------------------------------------- validate
\* Settings::validate over the fields it looks at.
\* Mutant: 128 passes as a note.
NotesInRangeInclusive(ns) == \A i \in 1..Len(ns) : ns[i] <= 128

\* !self.notemaps.iter().any(|x| *x >= 128)
NotesInRange(ns) == \A i \in 1..Len(ns) : ~(ns[i] >= 128)

validate(c) ==
    IF Len(c.notemaps) # NumPads THEN "Err"
    ELSE IF ~NotesInRange(c.notemaps) THEN "Err"
    ELSE IF c.client_name = "" THEN "Err"
    ELSE IF c.port_name = "" THEN "Err"
    ELSE "Ok"

DefaultCfg ==
    [notemaps |-> notemaps,
     client_name |-> "Maschine Mikro MK3",
     port_name |-> "Maschine Mikro MK3 MIDI Out"]

\* The settings files offered to validate: the default note map with one
\* entry replaced, or one entry short, or one entry long, and each name empty
\* or not.
NoteProbes == {0, 127, 128, ByteMax}

CfgNotemaps ==
    {[notemaps EXCEPT ![i] = n] : i \in 1..NumPads, n \in NoteProbes}
      \cup {SubSeq(notemaps, 1, NumPads - 1), Append(notemaps, 0), <<>>}

Cfgs ==
    [notemaps : CfgNotemaps,
     client_name : {"", DefaultCfg.client_name},
     port_name : {"", DefaultCfg.port_name}]

\* ------------------------------------------------------------------- Init
\* The state main_loop starts in, for the scenarios of E.
InitOf(E) ==
    /\ env \in E
    /\ probe \in ProbeValues(env)
    /\ settings \in SettingsOf(env)
    /\ exclusive_groups \in [GroupIds -> UNION {Orderings(GroupMembers(settings, g)) : g \in GroupIds}]
    /\ \A g \in GroupIds : exclusive_groups[g] \in Orderings(GroupMembers(settings, g))
    /\ buf = ZeroBuf
    /\ toggle_states = [b \in Buttons |-> FALSE]
    /\ lights = LightsNew
    /\ changed_lights = FALSE
    /\ osc_listener = <<>>
    /\ send_ok = AllSent
    /\ tick_hist = [start |-> LightsNew.button, hid |-> LightsNew.button,
                    hidset |-> FALSE, set |-> FALSE, written |-> <<>>]
    /\ cfg = DefaultCfg
    /\ validated = "Ok"
    /\ osc_out = <<>>
    /\ midi_out = <<>>
    /\ hid_in = <<>>
    /\ last_recv = [queued |-> 0, got |-> <<>>]
    /\ held = {}
    /\ reaccepted = {}
    /\ pc = "read"
    /\ ticks = 0
    /\ arrivals = 0

Init == InitOf(Envs)

InitExt == InitOf(ExtEnvs)

\* The state main is in once the settings file is loaded, before validate.
InitValidate ==
    /\ env = "validate"
    /\ probe = 0
    /\ settings = DefaultSettings
    /\ exclusive_groups = [g \in GroupIds |-> <<>>]
    /\ buf = ZeroBuf
    /\ toggle_states = [b \in Buttons |-> FALSE]
    /\ lights = LightsNew
    /\ changed_lights = FALSE
    /\ osc_listener = <<>>
    /\ send_ok = AllSent
    /\ tick_hist = [start |-> LightsNew.button, hid |-> LightsNew.button,
                    hidset |-> FALSE, set |-> FALSE, written |-> <<>>]
    /\ cfg \in Cfgs
    /\ validated = "pending"
    /\ osc_out = <<>>
    /\ midi_out = <<>>
    /\ hid_in = <<>>
    /\ last_recv = [queued |-> 0, got |-> <<>>]
    /\ held = {}
    /\ reaccepted = {}
    /\ pc = "start"
    /\ ticks = 0
    /\ arrivals = 0

\* ---------------------------------------------------------------- actions
\* settings.validate().unwrap() in main: Err panics, Ok goes on to main_loop.
Validate ==
    /\ pc = "start"
    /\ validated' = validate(cfg)
    /\ pc' = IF validated' = "Ok" THEN "read" ELSE "panicked"
    /\ UNCHANGED <<env, probe, settings, exclusive_groups, buf, toggle_states,
                   lights, changed_lights, osc_listener, send_ok, tick_hist, cfg,
                   osc_out, midi_out, hid_in, last_recv, held, reaccepted,
                   ticks, arrivals>>

\* device.read_timeout: a new report replaces buf, or nothing arrives within
\* the timeout and buf keeps the previous report.  changed_lights starts the
\* tick false.
HidRead ==
    /\ pc = "read"
    /\ ticks < TickBound(env)
    /\ \E got \in BOOLEAN :
         IF got
         THEN \E f \in Frames(env, probe) :
                /\ buf' = f
                /\ hid_in' = Append(hid_in, f)
         ELSE UNCHANGED <<buf, hid_in>>
    /\ send_ok' \in SendOutcomes(env)
    /\ tick_hist' = [start |-> lights.button, hid |-> lights.button,
                     hidset |-> FALSE, set |-> FALSE, written |-> <<>>]
    /\ ticks' = ticks + 1
    /\ changed_lights' = FALSE
    /\ pc' = "hid"
    /\ UNCHANGED <<env, probe, settings, exclusive_groups, toggle_states, lights,
                   osc_listener, osc_out, midi_out, last_recv, held, reaccepted,
                   arrivals, cfg, validated>>

\* The HID section of the loop body, over whatever buf holds.
ProcessFrame ==
    /\ pc = "hid"
    /\ \E st \in {ProcessBuf(LoopState)} :
           /\ lights' = st.lights
           /\ toggle_states' = st.ts
           /\ osc_out' = st.osc
           /\ midi_out' = st.midi
           /\ changed_lights' = st.ch
           /\ tick_hist' = [tick_hist EXCEPT !.hid = st.lights.button,
                                             !.hidset = st.set, !.set = st.set]
           /\ held' = IF buf.sel = 1
                      THEN {b \in buf.pressed : b \in held \/ b \in st.acc}
                      ELSE held
           /\ reaccepted' = IF buf.sel = 1 THEN held \cap st.acc ELSE {}
           /\ pc' = IF st.panic THEN "panicked" ELSE "recv1"
    /\ UNCHANGED <<env, probe, settings, exclusive_groups, buf, osc_listener,
                   hid_in, last_recv, ticks, arrivals, send_ok, cfg, validated>>

\* A datagram reaches the listener socket.  The queue is looked at only by the
\* two receives, so arrivals are placed right before each of them.
Arrive ==
    /\ pc \in {"recv1", "recv2"}
    /\ arrivals < ArrivalBound(env)
    /\ \E d \in Datagrams(env) \cup ProbeDatagrams(env, probe) :
         osc_listener' = Append(osc_listener, d)
    /\ arrivals' = arrivals + 1
    /\ UNCHANGED <<env, probe, settings, exclusive_groups, buf, toggle_states,
                   lights, changed_lights, osc_out, midi_out, hid_in, last_recv,
                   held, reaccepted, pc, ticks, send_ok, tick_hist, cfg, validated>>

\* The first recv_from and its dispatch.
OscRecv1 ==
    /\ pc = "recv1"
    /\ \E d \in {RecvFrom(osc_listener)} :
       \E st \in {OscDispatch1([LoopState EXCEPT !.ch = changed_lights], d)} :
           /\ lights' = st.lights
           /\ changed_lights' = st.ch
           /\ tick_hist' = [tick_hist EXCEPT !.set = @ \/ st.set]
           /\ last_recv' = [queued |-> Len(osc_listener),
                            got |-> IF osc_listener = <<>> THEN <<>> ELSE <<d>>]
    /\ osc_listener' = AfterRecv(osc_listener)
    /\ pc' = "recv2"
    /\ UNCHANGED <<env, probe, settings, exclusive_groups, buf, toggle_states,
                   osc_out, midi_out, hid_in, held, reaccepted, ticks, arrivals,
                   send_ok, cfg, validated>>

\* The second recv_from and its dispatch.
OscRecv2 ==
    /\ pc = "recv2"
    /\ \E d \in {RecvFrom(osc_listener)} :
       \E st \in {OscDispatch2([LoopState EXCEPT !.ch = changed_lights], d)} :
           /\ lights' = st.lights
           /\ changed_lights' = st.ch
           /\ tick_hist' = [tick_hist EXCEPT !.set = @ \/ st.set]
           /\ last_recv' = [last_recv EXCEPT
                              !.got = IF osc_listener = <<>> THEN @ ELSE Append(@, d)]
    /\ osc_listener' = AfterRecv(osc_listener)
    /\ pc' = "flush"
    /\ UNCHANGED <<env, probe, settings, exclusive_groups, buf, toggle_states,
                   osc_out, midi_out, hid_in, held, reaccepted, ticks, arrivals,
                   send_ok, cfg, validated>>

\* Mutant: the write happens on every tick.
ShouldWriteAlways(changed) == TRUE

\* if changed_lights { lights.write(device)? }
ShouldWrite(changed) == changed

\* The end of the loop body: the conditional write, then the next iteration.
Flush ==
    /\ pc = "flush"
    /\ tick_hist' = IF ShouldWrite(changed_lights)
                    THEN [tick_hist EXCEPT !.written = Append(@, lights)]
                    ELSE tick_hist
    /\ pc' = "read"
    /\ UNCHANGED <<env, probe, settings, exclusive_groups, buf, toggle_states,
                   lights, changed_lights, osc_listener, osc_out, midi_out,
                   hid_in, last_recv, held, reaccepted, ticks, arrivals,
                   send_ok, cfg, validated>>

Next == HidRead \/ ProcessFrame \/ Arrive \/ OscRecv1 \/ OscRecv2 \/ Flush

Spec == Init /\ [][Next]_vars

\* The same loop over the further scenarios.
SpecExt == InitExt /\ [][Next]_vars

\* Start-up alone: load, validate, enter the loop or panic.
NextValidate == Validate

SpecValidate == InitValidate /\ [][NextValidate]_vars

\* ================================================================ claims
\* The frame in buf has been processed since it was read.
FrameDone == pc \notin {"hid", "panicked"}

PressedOnly(b) == ControlFrame({b}, 0)

Released == ControlFrame({}, 0)

\* The status values sent for one button, oldest first.
StatusOf(b) == SelectSeq(osc_out, LAMBDA m : m[1] = ToLower(b))

\* Play and Stop Latching in group 1, nothing else configured.
PlayStopGroup ==
    [b \in Buttons |-> IF b \in {"Play", "Stop"}
                       THEN [mode |-> "Toggle", group_id |-> 1, cc |-> 0]
                       ELSE [mode |-> "Trigger", group_id |-> 0, cc |-> 0]]

\* C1: in every reachable state each exclusivity group has at most one member
\* whose stored latch boolean is true.
C1_AtMostOneLatchedPerGroup ==
    \A g \in GroupIds :
        Cardinality({b \in GroupMembers(settings, g) : toggle_states[b]}) <= 1

\* C1 witness: two members of a group were pressed in the same frame, a
\* datagram has arrived, and one member is latched.
C1_Witness ==
    /\ pc = "recv2"
    /\ arrivals > 0
    /\ \E g \in GroupIds : \E a, b \in GroupMembers(settings, g) :
         a # b /\ {a, b} \subseteq buf.pressed /\ toggle_states[b]

\* C2 (as claimed): for any two Latching members A, B of one group, both off at
\* the start, after the frames [A pressed, A released, B pressed] B's stored
\* boolean is true, every other member's is false, B's light is Bright and
\* A's light is Off.
C2_Claim ==
    \A g \in GroupIds : \A A, B \in GroupMembers(settings, g) :
        (/\ A # B
         /\ arrivals = 0
         /\ hid_in = <<PressedOnly(A), Released, PressedOnly(B)>>
         /\ FrameDone)
        => /\ toggle_states[B]
           /\ \A o \in GroupMembers(settings, g) \ {B} : ~toggle_states[o]
           /\ lights.button[B] = "Bright"
           /\ lights.button[A] = "Off"

\* C3 (as claimed): with Play and Stop Latching in group 1, the frames
\* [Play pressed, Play released, Stop pressed] produce exactly the status
\* emissions [Play=1, Stop=1, Play=0].
C3_Scenario ==
    /\ settings = PlayStopGroup
    /\ arrivals = 0
    /\ hid_in = <<PressedOnly("Play"), Released, PressedOnly("Stop")>>
    /\ FrameDone

C3_Original ==
    C3_Scenario => osc_out = <<<<"play", 1>>, <<"stop", 1>>, <<"play", 0>>>>

\* C3 (amended): the same frames, with no inbound datagram, produce exactly
\* the status emissions [Stop=0, Play=1, Play=0, Stop=1]: each accepted press
\* that latches a control on first sends the 0 of the other member (also when
\* that member is already off) and then the 1 of the pressed control.
C3_Amended ==
    C3_Scenario =>
        osc_out = <<<<"stop", 0>>, <<"play", 1>>, <<"play", 0>>, <<"stop", 1>>>>

\* C3 witness: the three frames have been processed and the tick is at its end.
C3_Witness == C3_Scenario /\ pc = "flush"

\* C4 (as claimed): for every Momentary control, with or without a light, a
\* press followed by a release emits exactly [1, 0] for it and leaves its
\* light Off.
C4_Claim ==
    \A b \in Buttons :
        (/\ settings[b].mode = "Trigger"
         /\ arrivals = 0
         /\ Len(hid_in) = 2
         /\ hid_in[1].sel = 1 /\ b \in hid_in[1].pressed
         /\ hid_in[2].sel = 1 /\ b \notin hid_in[2].pressed
         /\ FrameDone)
        => /\ StatusOf(b) = <<<<ToLower(b), 1>>, <<ToLower(b), 0>>>>
           /\ lights.button[b] = "Off"

\* C5 (as claimed): once a Latching control's press has been accepted, no later
\* pass that still sees it pressed accepts the press again (acceptance is what
\* flips the stored boolean and emits the status).  Stated for the controls
\* that have a light and belong to no group, whatever datagrams arrive.
C5_Claim ==
    \A b \in reaccepted : ~button_has_light(b) \/ settings[b].group_id # 0

\* The slider frame of the "slider" scenario has been read and processed.
SliderDone == env = "slider" /\ hid_in # <<>> /\ FrameDone

\* C6: for every hardware slider level L in 1..200, with
\* cnt = ((L - 1 + 5) * 25) div 200 - 1, after the frame is processed position
\* p of the bar is Normal iff p = cnt, Dim iff 0 <= p < cnt and Off otherwise;
\* L = 200 puts the head at 24 over a Dim tail 0..23, L = 1 leaves all 25 Off.
C6_SliderBar ==
    (SliderDone /\ probe \in 1..200) =>
        LET cnt == (((probe - 1 + 5) * 25) \div 200) - 1
        IN  /\ \A p \in 0..24 :
                 /\ lights.slider[p] = "Normal" <=> p = cnt
                 /\ lights.slider[p] = "Dim" <=> p < cnt
                 /\ lights.slider[p] = "Off" <=> p > cnt
            /\ probe = 200 =>
                 /\ lights.slider[24] = "Normal"
                 /\ \A p \in 0..23 : lights.slider[p] = "Dim"
            /\ probe = 1 =>
                 /\ cnt = -1
                 /\ \A p \in 0..24 : lights.slider[p] = "Off"

\* C6 witness: the frame with L = 200 was processed and the head is at 24.
C6_Witness == SliderDone /\ probe = 200 /\ lights.slider[24] = "Normal"

\* C7 (as claimed): for every raw slider byte L in 201..255 the bar written by
\* the tick is the bar written for L = 200.
C7_Claim ==
    (SliderDone /\ probe \in 201..255) =>
        /\ lights.slider[24] = "Normal"
        /\ \A p \in 0..23 : lights.slider[p] = "Dim"

\* The pad frame carrying a NoteOn for pad 0 and a PressOn for pad 15.
NoteOnFrame(v) == PadFrame(<<PadTuple(0, 16, v), PadTuple(15, 0, v)>>)

MaxOf(a, b) == IF a >= b THEN a ELSE b

\* C8: for every NoteOn/PressOn tuple with raw value v in 1..4095 the note-on
\* sent carries key NoteMap[padIndex] and velocity max(1, v >> 5), which lies
\* in 1..127; every v in 1..31 gives velocity 1.
C8_NoteOnVelocity ==
    (env = "pad" /\ probe \in 1..4095) =>
        /\ \A i \in DOMAIN midi_out :
             midi_out[i].type = "NoteOn" =>
                 /\ midi_out[i].vel = MaxOf(1, probe \div 32)
                 /\ midi_out[i].vel \in 1..127
                 /\ probe <= 31 => midi_out[i].vel = 1
        /\ (hid_in # <<>> /\ hid_in[1] = NoteOnFrame(probe)
              /\ (FrameDone \/ Len(hid_in) > 1)) =>
             /\ Len(midi_out) >= 2
             /\ midi_out[1] = [type |-> "NoteOn", key |-> 49,
                                vel |-> MaxOf(1, probe \div 32)]
             /\ midi_out[2] = [type |-> "NoteOn", key |-> 44,
                                vel |-> MaxOf(1, probe \div 32)]

\* C8 witness: a note-on for the raw value 31 was sent, with velocity 1.
C8_Witness ==
    /\ env = "pad"
    /\ probe = 31
    /\ \E i \in DOMAIN midi_out :
         midi_out[i].type = "NoteOn" /\ midi_out[i].vel = 1

\* A pad/<n> datagram with two integer arguments and n in 0..15.
IsPadWrite(d) ==
    /\ d.ok
    /\ Len(d.addr) = 2
    /\ d.addr[1] = "pad"
    /\ ParseUsize(d.addr[2]) \in 0..15
    /\ Len(d.args) = 2
    /\ d.args[1].type = "Int"
    /\ d.args[2].type = "Int"

BrightnessOfCode(c) ==
    CASE c = 0 -> "Off" [] c = 1 -> "Dim" [] c = 2 -> "Normal" [] c = 3 -> "Bright"

\* C9 (as claimed): every pad/<n> datagram (n in 0..15, two integer
\* arguments) that was queued when the inbound step started and that the tick
\* receives is applied: at the end of the tick pad n has that colour and
\* brightness and the model is dirty, whatever else was queued before it.
C9_Claim ==
    pc = "flush" =>
        \A i \in DOMAIN last_recv.got :
            LET d == last_recv.got[i]
            IN  (i <= last_recv.queued /\ IsPadWrite(d)) =>
                  /\ lights.pad[ParseUsize(d.addr[2])]
                        = <<d.args[1].v, BrightnessOfCode(d.args[2].v)>>
                  /\ changed_lights

\* C10 (as claimed): the datagrams queued when the inbound step starts are all
\* received in that tick.
C10_Claim ==
    pc = "flush" => Len(last_recv.got) >= last_recv.queued

\* A pad frame one of whose tuples carries an event nibble that is none of the
\* five known ones.
HasUnknownNibble(f) ==
    /\ f.sel = 2
    /\ \E k \in 1..Len(f.tuples) : PadEventType(f.tuples[k].evt) = "None"

\* Every tuple of a pad frame names one of the 16 pads.
PadIndicesValid(f) ==
    f.sel = 2 => \A k \in 1..Len(f.tuples) : f.tuples[k].idx < NumPads

\* C11 (as claimed): a pad frame holding a tuple with an unknown event nibble
\* (pad indices valid, sends succeeding) does not abort the loop: the tick
\* goes on to the inbound step.
C11_Claim ==
    (HasUnknownNibble(buf) /\ PadIndicesValid(buf) /\ send_ok.midi)
        => pc # "panicked"

\* C12 (as claimed): a tick whose note or controller sends fail (frame
\* otherwise well formed) does not terminate the loop.
C12_Claim ==
    (~send_ok.midi /\ ~HasUnknownNibble(buf) /\ PadIndicesValid(buf))
        => pc # "panicked"

\* C13: lights.write runs at most once per tick, and only in a tick in which
\* a light setter (button, pad or slider) was applied; a tick without one
\* performs no write.
C13_WriteOnlyWhenMutated ==
    /\ Len(tick_hist.written) <= 1
    /\ tick_hist.written # <<>> => tick_hist.set
    /\ (pc = "read" /\ ~tick_hist.set) => tick_hist.written = <<>>

\* C13 witness: a tick over a pad frame whose only light change came from an
\* inbound datagram has ended with one write, after an earlier tick.
C13_Witness ==
    /\ pc = "read"
    /\ ticks > 1
    /\ buf.sel = 2
    /\ ~tick_hist.hidset
    /\ Len(tick_hist.written) = 1

\* What the tick's first and second receive returned.
Recv1Got == IF last_recv.queued >= 1 THEN last_recv.got[1] ELSE NoDatagram

Recv2Got ==
    LET n == IF last_recv.queued >= 1 THEN 1 ELSE 0
    IN  IF Len(last_recv.got) > n THEN last_recv.got[n + 1] ELSE NoDatagram

\* The brightness the datagram the first (1) or second (2) receive returned
\* asks for button b, "None" when it does not address b.
InboundLight(k, b) ==
    LET d == IF k = 1 THEN Recv1Got ELSE Recv2Got
        parts == IF k = 1 THEN AddressParts1(d.addr) ELSE AddressParts2(d.addr)
        named == IF k = 1 THEN Len(parts) = 1 ELSE Len(parts) >= 2
    IN  IF d.ok /\ named /\ button_from_name(parts[k]) = b /\ IsInt(d.args, 1)
        THEN DirectBrightness(d.args[1].v)
        ELSE "None"

\* The last inbound request of the tick for button b.
LastInboundLight(b) ==
    IF InboundLight(2, b) # "None" THEN InboundLight(2, b) ELSE InboundLight(1, b)

\* C14: within a tick no write happens before the inbound step is over, and
\* the snapshot written at the end holds, for every lit button, the value the
\* tick's last inbound message gave it, or else the value the HID section
\* left: the inbound value wins over the hardware-derived one.
C14_InboundAfterHardware ==
    /\ pc \in {"hid", "recv1", "recv2", "flush"} => tick_hist.written = <<>>
    /\ (pc = "read" /\ tick_hist.written # <<>>) =>
          /\ tick_hist.written[1] = lights
          /\ \A b \in Buttons :
                button_has_light(b) =>
                   tick_hist.written[1].button[b] =
                       IF LastInboundLight(b) # "None" THEN LastInboundLight(b)
                       ELSE tick_hist.hid[b]

\* C14 witness: in one tick the HID section changed a button's light, an
\* inbound message set the same light to another value, and the write is done.
C14_Witness ==
    /\ pc = "read"
    /\ tick_hist.written # <<>>
    /\ \E b \in Buttons :
          /\ tick_hist.hid[b] # tick_hist.start[b]
          /\ LastInboundLight(b) # "None"
          /\ tick_hist.written[1].button[b] # tick_hist.hid[b]

\* C15: validate returns Ok exactly when the note map has 16 entries, every
\* entry is below 128 and both names are non-empty; the loop is entered only
\* with a note map of 16 entries in 0..127.
C15_ValidateOkExactly ==
    /\ validated # "pending" =>
          (validated = "Ok" <=>
              /\ Len(cfg.notemaps) = 16
              /\ \A i \in 1..Len(cfg.notemaps) : cfg.notemaps[i] < 128
              /\ cfg.client_name # ""
              /\ cfg.port_name # "")
    /\ pc = "read" =>
          /\ Len(cfg.notemaps) = 16
          /\ \A i \in 1..16 : cfg.notemaps[i] \in 0..127

\* C15 witness: a file with 16 notes, one of them 128, and both names set was
\* rejected and the loop was not entered.
C15_Witness ==
    /\ env = "validate"
    /\ pc = "panicked"
    /\ validated = "Err"
    /\ Len(cfg.notemaps) = 16
    /\ \E i \in 1..16 : cfg.notemaps[i] = 128
    /\ cfg.client_name # ""
    /\ cfg.port_name # ""

\* Press, release, press, release of one button, nothing else pressed.
LatchSeq(b) == <<PressedOnly(b), Released, PressedOnly(b), Released>>

LatchSeqLights == <<"Bright", "Dim", "Bright", "Off">>

\* The status values sent for the button once the first n frames are done.
LatchSeqStatus(b, n) ==
    CASE n \in {1, 2} -> <<OscStatus(ToLower(b), 1)>>
      [] n \in {3, 4} -> <<OscStatus(ToLower(b), 1), OscStatus(ToLower(b), 0)>>

\* C16: for an ungrouped Latching control with a light and no inbound
\* traffic, the frames [press, release, press, release] emit exactly [1, 0]
\* for it and its light reads Bright, Dim, Bright, Off after the four frames.
C16_PressReleaseTwice ==
    \A b \in Buttons : \A n \in 1..4 :
        ( /\ button_has_light(b)
          /\ settings[b].mode = "Toggle"
          /\ settings[b].group_id = 0
          /\ arrivals = 0
          /\ FrameDone
          /\ hid_in = SubSeq(LatchSeq(b), 1, n) )
        => /\ lights.button[b] = LatchSeqLights[n]
           /\ StatusOf(b) = LatchSeqStatus(b, n)

\* C16 witness: the four frames have been processed for Play, ungrouped
\* Latching.
C16_Witness ==
    /\ settings["Play"].mode = "Toggle"
    /\ settings["Play"].group_id = 0
    /\ hid_in = LatchSeq("Play")
    /\ pc = "read"
    /\ StatusOf("Play") = LatchSeqStatus("Play", 4)

\* The status messages for the buttons of S among those sent by the step.
SentFor(S) ==
    SelectSeq(SubSeq(osc_out', Len(osc_out) + 1, Len(osc_out')),
              LAMBDA m : \E o \in S : m[1] = ToLower(o))

\* The HID section runs over a control frame in which b alone is pressed, b
\* is a grouped Latching control and its press is accepted.
AcceptedGroupPress(b) ==
    /\ pc = "hid"
    /\ pc' = "recv1"
    /\ buf = PressedOnly(b)
    /\ settings[b].mode = "Toggle"
    /\ settings[b].group_id \in GroupIds
    /\ lights.button[b] # "Bright"

\* C17: an accepted press that turns a grouped Latching control on leaves
\* every other member of the group false with its light Off and sends a 0 for
\* each of them, all before the control's own 1; an accepted press that turns
\* it off changes no other member's stored state (nor, without inbound
\* traffic, its light) and sends nothing for the others.
C17_GroupPress ==
    [][\A b \in Buttons :
         AcceptedGroupPress(b) =>
            LET group == GroupMembers(settings, settings[b].group_id)
                others == group \ {b}
                sent == SentFor(group)
            IN  IF ~toggle_states[b]
                THEN /\ toggle_states'[b]
                     /\ \A o \in others :
                           /\ ~toggle_states'[o]
                           /\ lights'.button[o] = "Off"
                           /\ \E i \in 1..(Len(sent) - 1) :
                                 sent[i] = OscStatus(ToLower(o), 0)
                     /\ Len(sent) = Cardinality(others) + 1
                     /\ sent[Len(sent)] = OscStatus(ToLower(b), 1)
                ELSE /\ ~toggle_states'[b]
                     /\ \A o \in others :
                           /\ toggle_states'[o] = toggle_states[o]
                           /\ arrivals = 0 => lights'.button[o] = lights.button[o]
                     /\ sent = <<OscStatus(ToLower(b), 0)>>
      ]_vars

\* C17 witness: Stop, latched and released (light Dim), has just been forced
\* off by the accepted press of Play, third member EncoderPress in the group.
C17_Witness ==
    /\ pc = "recv1"
    /\ buf = PressedOnly("Play")
    /\ Cardinality(GroupMembers(settings, 1)) = 3
    /\ toggle_states["Play"]
    /\ lights.button["Play"] = "Bright"
    /\ lights.button["Stop"] = "Off"
    /\ StatusOf("Stop") = <<OscStatus("stop", 1), OscStatus("stop", 0)>>
    /\ Len(StatusOf("EncoderPress")) = 2

\* C18 (as claimed): in every reachable state a Latching control whose light
\* is Bright has been held pressed since its last accepted press.
C18_Claim ==
    \A b \in Buttons :
        (settings[b].mode = "Toggle" /\ lights.button[b] = "Bright") => b \in held

\* The controller messages sent on one controller number, oldest first.
ControllerOf(cc_num) ==
    SelectSeq(midi_out, LAMBDA m : m.type = "Controller" /\ m.key = cc_num)

\* C19 (as claimed): with every send succeeding, the status emissions of a
\* control that has a controller number, the 0 of a forced switch-off
\* included, are matched one for one by controller messages on that number
\* (127 for 1, 0 for 0); a control without one has no controller message.
C19_Claim ==
    env = "latch" =>
       /\ \A b \in Buttons :
             settings[b].cc # 0 =>
                /\ Len(ControllerOf(settings[b].cc)) = Len(StatusOf(b))
                /\ \A i \in 1..Len(StatusOf(b)) :
                      ControllerOf(settings[b].cc)[i].vel =
                          IF StatusOf(b)[i][2] = 1 THEN 127 ELSE 0
       /\ \A i \in 1..Len(midi_out) :
             midi_out[i].type = "Controller" =>
                \E b \in Buttons : settings[b].cc = midi_out[i].key

\* The level the claim has the inbound handler use.
ClampedLevel(v) == IF v < 0 THEN 0 ELSE IF v > SliderMax THEN SliderMax ELSE v

\* C20 (as claimed): once the first receive has taken the inbound slider
\* message with argument v, the slider bar is the fill for min(max(v, 0), 200),
\* the model is dirty, and nothing was sent beyond the hardware slider's own
\* status of the tick.
C20_Claim ==
    (env = "inslider" /\ pc = "recv2" /\ last_recv.queued >= 1) =>
       /\ lights.slider = SliderBar(ClampedLevel(probe))
       /\ changed_lights
       /\ Len(osc_out) <= ticks

\* Datagram d carries exactly one integer argument and addresses button b the
\* way the claim describes: a single segment naming b, or a path of several
\* segments whose second one names b.
AddressesButton(d, b) ==
    /\ d.ok
    /\ Len(d.args) = 1
    /\ IsInt(d.args, 1)
    /\ \/ Len(d.addr) = 1 /\ button_from_name(d.addr[1]) = b
       \/ Len(d.addr) >= 2 /\ button_from_name(d.addr[2]) = b

\* One of the two receives takes a datagram off the listener.
ReceiveStep ==
    /\ pc \in {"recv1", "recv2"}
    /\ pc' # pc
    /\ osc_listener # <<>>

\* C21 (as claimed): whichever receive takes a datagram that addresses button
\* b with one integer argument, b's light (if it has one) becomes Bright for
\* 1 and Off otherwise and the model is dirty; no stored latch boolean and no
\* other button's light changes.
C21_Claim ==
    [][\A b \in Buttons :
         (ReceiveStep /\ AddressesButton(Head(osc_listener), b)) =>
            /\ button_has_light(b) =>
                  /\ lights'.button[b] = DirectBrightness(Head(osc_listener).args[1].v)
                  /\ changed_lights'
            /\ toggle_states' = toggle_states
            /\ \A o \in Buttons \ {b} : lights'.button[o] = lights.button[o]
      ]_vars

\* C22 (as claimed): no note-on carries velocity 0; in the pad scenario the
\* velocity is max(1, v >> 5) for the probed value v, 0 included.
C22_Claim ==
    \A i \in 1..Len(midi_out) :
        midi_out[i].type = "NoteOn" =>
            /\ midi_out[i].vel >= 1
            /\ env = "pad" => midi_out[i].vel = MaxOf(1, probe \div 32)

\* The NoteOn / PressOn tuples of a frame.
NoteOnTuples(f) ==
    IF f.sel = 2
    THEN Cardinality({k \in 1..Len(f.tuples) :
                         PadEventType(f.tuples[k].evt) \in {"NoteOn", "PressOn"}})
    ELSE 0

RECURSIVE NoteOnTuplesRead(_)
NoteOnTuplesRead(frames) ==
    IF frames = <<>> THEN 0
    ELSE NoteOnTuples(Head(frames)) + NoteOnTuplesRead(Tail(frames))

\* C23 (as claimed): each frame read is processed once: the note-ons sent are
\* as many as the NoteOn tuples read and the slider status messages as many as
\* the frames read with a non-zero slider, however many ticks have passed.
C23_Claim ==
    FrameDone =>
       /\ Len(SelectSeq(midi_out, LAMBDA m : m.type = "NoteOn"))
             = NoteOnTuplesRead(hid_in)
       /\ Len(StatusOf("slider"))
             = Len(SelectSeq(hid_in, LAMBDA f : f.sel = 1 /\ f.slider # 0))

\* C24 (as claimed): while every frame read shows all buttons released, no
\* status and no controller message is sent, whatever datagrams arrive.
C24_Claim ==
    (\A i \in 1..Len(hid_in) : hid_in[i].sel = 1 /\ hid_in[i].pressed = {} /\ hid_in[i].slider = 0)
        => /\ osc_out = <<>>
           /\ midi_out = <<>>

\* C25 (as claimed): a pad frame whose event nibbles are all known does not
\* abort the loop (sends succeeding), whatever its index bytes.
C25_Claim ==
    (buf.sel = 2 /\ ~HasUnknownNibble(buf) /\ send_ok.midi) => pc # "panicked"

====
